---- MODULE Spec2Model ----
(***************************************************************************)
(* The library GraphQL server of src/index.js (src/unnamed/part_000 is an  *)
(* earlier layout of the same resolvers): three collections (users,        *)
(* authors, books), the resolvers that read and write them, and the        *)
(* BOOK_ADDED topic of the process-wide PubSub.                            *)
(*                                                                         *)
(* An async resolver is modelled one action per await: between two awaits  *)
(* any other request may run.  Optional values (a nullable GraphQL         *)
(* argument, a findOne result, an unset field, context.currentUser) are    *)
(* sequences of length at most one: <<>> is null/undefined, <<v>> is v.    *)
(* Documents keep the insertion order of their collection and are never    *)
(* deleted (no resolver deletes), so an _id is modelled by the position    *)
(* of the document in its collection.                                      *)
(***************************************************************************)
EXTENDS Integers, Sequences, FiniteSets

\* ------------------------------------------------------------------ bounds
MaxCalls == 2      \* addBook requests per behaviour
MaxSubs == 2       \* bookAdded subscriptions opened per behaviour

\* ------------------------------------------------------------------ inputs
Usernames == {"u1"}
FavoriteGenres == {"g1"}
Passwords == {"secret", "Secret"}
AuthorNames == {"", "a1", "a2"}
GenreNames == {"", "g1", "g2"}
EditNames == {"a1", "a2"}
BornYears == {1900, 1950}

\* The addBook argument tuples tried (title, published, author, genres).
BookInputs ==
    { [title |-> "t1", published |-> 2001, author |-> "a1", genres |-> <<"g1">>],
      [title |-> "t2", published |-> 2002, author |-> "a1", genres |-> <<"g1", "g2">>],
      [title |-> "t3", published |-> 2003, author |-> "a2", genres |-> <<>>],
      [title |-> "t4", published |-> 2004, author |-> "", genres |-> <<"g2">>] }

\* A request's credential: no Authorization header, or a token signed with
\* JWT_SECRET that embeds a user id (one more id than users can exist, so
\* that a token can name a user the store does not hold).
Credentials == {<<>>} \cup { <<i>> : i \in 1..(Cardinality(Usernames) + 1) }

VARIABLES
    users,      \* users collection: Seq of [id, username, favoriteGenre]
    authors,    \* authors collection: Seq of [id, name, born]
    books,      \* books collection: Seq of [id, title, published, author, genres]
    calls,      \* the addBook requests, in the order they were made
    edit,       \* the editAuthor request in flight (or the last one made)
    subs,       \* the BOOK_ADDED async iterators, in the order they were opened
    published,  \* the payloads handed to pubsub.publish, in publish order
    resp        \* the response of the query or login just made

vars == <<users, authors, books, calls, edit, subs, published, resp>>

\* resp holds the response of the step just taken when that step was a query or
\* a login, and NoResp after every other step.
NoResp == [op |-> "none", args |-> <<>>, error |-> "", message |-> "", value |-> <<>>]

\* ------------------------------------------------------------------ store
Range(s) == { s[i] : i \in DOMAIN s }

\* Model.findOne(filter): of the documents of coll at the positions hits (those
\* the filter matches), the first in collection order; null when there is none.
FindOne(coll, hits) ==
    IF hits = {} THEN <<>>
    ELSE <<coll[CHOOSE i \in hits : \A j \in hits : i <= j]>>

FindOneAuthorByName(name) ==
    FindOne(authors, { i \in DOMAIN authors : authors[i].name = name })

FindOneUserByName(username) ==
    FindOne(users, { i \in DOMAIN users : users[i].username = username })

FindUserById(id) ==
    FindOne(users, { i \in DOMAIN users : users[i].id = id })

FindAuthorById(id) ==
    FindOne(authors, { i \in DOMAIN authors : authors[i].id = id })

\* The context function of expressMiddleware: no credential gives {} (no
\* currentUser); a token gives the user User.findById finds, null when the
\* store holds no such user.  (A token jwt.verify rejects makes the context
\* function throw: the request fails before any resolver runs, so it is no
\* step of this model.)
Context(cred) ==
    IF cred = <<>> THEN <<>> ELSE FindUserById(cred[1])

\* book.populate('author'): the book with its author reference replaced by
\* the Author document of that id.
Populate(b) ==
    [id |-> b.id, title |-> b.title, published |-> b.published,
     author |-> FindAuthorById(b.author), genres |-> b.genres]

\* ------------------------------------------------------------------ schemas
\* The mongoose schemas (./models/author, ./models/book, ./models/user) are
\* not part of src/.  Author: name is required (an empty string fails a
\* required validator) and carries no uniqueness constraint.
AuthorSchemaAccepts(name) == name # ""

\* User: username is required and unique.
UserSchemaAccepts(username) ==
    username # "" /\ FindOneUserByName(username) = <<>>

\* ------------------------------------------------------------------ PubSub
\* PublishTo with no regard for cancellation: every iterator ever opened gets
\* the payload.
PublishTo_Everyone(s, payload) ==
    [ i \in DOMAIN s |-> [s[i] EXCEPT !.queue = Append(@, payload)] ]

\* pubsub.publish(topic, payload): the payload is pushed onto the queue of
\* every iterator registered at that moment; cancelled iterators get nothing.
PublishTo(s, payload) ==
    [ i \in DOMAIN s |->
        IF s[i].state = "active"
        THEN [s[i] EXCEPT !.queue = Append(@, payload)]
        ELSE s[i] ]

\* ------------------------------------------------------------------ addBook
\* A request record: the request (cred, args), the resolver's locals
\* (currentUser; looked: "" before the Author lookup, then "hit" or "miss";
\* author and book: the _id of the Author used and of the Book inserted, 0
\* while there is none), its outcome (result or error), and what the request
\* saw of the store: named0, the Authors of its author name when it arrived;
\* alone, whether no other authenticated addBook ran while it did; dAuthors
\* and dBooks, how many documents the collections gained while it ran.
NoCall ==
    [pc |-> "done", cred |-> <<>>, args |-> CHOOSE a \in BookInputs : TRUE,
     currentUser |-> <<>>, looked |-> "", author |-> 0, book |-> 0,
     result |-> <<>>, error |-> "",
     alone |-> FALSE, named0 |-> 0, authors0 |-> 0, books0 |-> 0,
     dAuthors |-> 0, dBooks |-> 0]

Named(name) == { i \in DOMAIN authors : authors[i].name = name }

InProgress(c) == c.pc # "done"

\* The ghost fields of a finished call: what the store gained since it began.
Finished(c, nAuthors, nBooks) ==
    [c EXCEPT !.pc = "done", !.dAuthors = nAuthors - c.authors0,
              !.dBooks = nBooks - c.books0, !.authors0 = 0, !.books0 = 0]

\* AddBookStart with the check made on the credential instead of on the user
\* it resolves to: a token that names no stored user gets through.
AddBookStart_TokenOnly(cred, args) ==
    /\ Len(calls) < MaxCalls
    /\ LET cu == Context(cred)
           quiet == \A i \in DOMAIN calls : ~InProgress(calls[i])
           c == [NoCall EXCEPT !.cred = cred, !.args = args, !.currentUser = cu,
                               !.named0 = Cardinality(Named(args.author))]
       IN  IF cred = <<>>
           THEN calls' = Append(calls, [c EXCEPT !.error = "UNAUTHENTICATED"])
           ELSE calls' = Append(
                    [ i \in DOMAIN calls |->
                        [calls[i] EXCEPT !.alone = @ /\ ~InProgress(calls[i])] ],
                    [c EXCEPT !.pc = "find", !.alone = quiet,
                              !.authors0 = Len(authors), !.books0 = Len(books)])
    /\ resp' = NoResp
    /\ UNCHANGED <<users, authors, books, edit, subs, published>>

\* The request arrives: the context is built and the resolver runs up to its
\* first await.  Without a current user it throws before touching the store.
AddBookStart(cred, args) ==
    /\ Len(calls) < MaxCalls
    /\ LET cu == Context(cred)
           quiet == \A i \in DOMAIN calls : ~InProgress(calls[i])
           c == [NoCall EXCEPT !.cred = cred, !.args = args, !.currentUser = cu,
                               !.named0 = Cardinality(Named(args.author))]
       IN  IF cu = <<>>
           THEN calls' = Append(calls, [c EXCEPT !.error = "UNAUTHENTICATED"])
           ELSE calls' = Append(
                    [ i \in DOMAIN calls |->
                        [calls[i] EXCEPT !.alone = @ /\ ~InProgress(calls[i])] ],
                    [c EXCEPT !.pc = "find", !.alone = quiet,
                              !.authors0 = Len(authors), !.books0 = Len(books)])
    /\ resp' = NoResp
    /\ UNCHANGED <<users, authors, books, edit, subs, published>>

\* AddBookFind with a lookup that never matches.
AddBookFind_NeverFound(k) ==
    /\ k \in DOMAIN calls
    /\ calls[k].pc = "find"
    /\ calls' = [calls EXCEPT ![k] = [@ EXCEPT !.pc = "saveAuthor", !.looked = "miss"]]
    /\ resp' = NoResp
    /\ UNCHANGED <<users, authors, books, edit, subs, published>>

\* let author = await Author.findOne({ name: args.author })
AddBookFind(k) ==
    /\ k \in DOMAIN calls
    /\ calls[k].pc = "find"
    /\ LET a == FindOneAuthorByName(calls[k].args.author)
       IN  calls' = [calls EXCEPT ![k] =
                IF a = <<>> THEN [@ EXCEPT !.pc = "saveAuthor", !.looked = "miss"]
                ELSE [@ EXCEPT !.pc = "saveBook", !.looked = "hit", !.author = a[1].id]]
    /\ resp' = NoResp
    /\ UNCHANGED <<users, authors, books, edit, subs, published>>

\* AddBookSaveAuthor as an upsert: an Author of that name inserted since the
\* lookup is reused instead of a second one being inserted.
AddBookSaveAuthor_Upsert(k) ==
    /\ k \in DOMAIN calls
    /\ calls[k].pc = "saveAuthor"
    /\ LET name == calls[k].args.author
           id == Len(authors) + 1
           now == FindOneAuthorByName(name)
       IN  IF now # <<>>
           THEN /\ authors' = authors
                /\ calls' = [calls EXCEPT ![k] =
                        [@ EXCEPT !.pc = "saveBook", !.author = now[1].id]]
           ELSE IF AuthorSchemaAccepts(name)
           THEN /\ authors' = Append(authors, [id |-> id, name |-> name, born |-> <<>>])
                /\ calls' = [calls EXCEPT ![k] =
                        [@ EXCEPT !.pc = "saveBook", !.author = id]]
           ELSE /\ authors' = authors
                /\ calls' = [calls EXCEPT ![k] =
                        Finished([@ EXCEPT !.error = "ValidationError"],
                                 Len(authors), Len(books))]
    /\ resp' = NoResp
    /\ UNCHANGED <<users, books, edit, subs, published>>

\* author = new Author({ name: args.author }); await author.save()
AddBookSaveAuthor(k) ==
    /\ k \in DOMAIN calls
    /\ calls[k].pc = "saveAuthor"
    /\ LET name == calls[k].args.author
           id == Len(authors) + 1
       IN  IF AuthorSchemaAccepts(name)
           THEN /\ authors' = Append(authors, [id |-> id, name |-> name, born |-> <<>>])
                /\ calls' = [calls EXCEPT ![k] =
                        [@ EXCEPT !.pc = "saveBook", !.author = id]]
           ELSE /\ authors' = authors
                /\ calls' = [calls EXCEPT ![k] =
                        Finished([@ EXCEPT !.error = "ValidationError"],
                                 Len(authors), Len(books))]
    /\ resp' = NoResp
    /\ UNCHANGED <<users, books, edit, subs, published>>

\* AddBookSaveBook with the event published before the insert is awaited.
AddBookSaveBook_PublishFirst(k, accepted) ==
    /\ k \in DOMAIN calls
    /\ calls[k].pc = "saveBook"
    /\ LET c == calls[k]
           id == Len(books) + 1
           book == [id |-> id, title |-> c.args.title, published |-> c.args.published,
                    author |-> c.author, genres |-> c.args.genres]
       IN  /\ published' = Append(published, Populate(book))
           /\ subs' = PublishTo(subs, Populate(book))
           /\ IF accepted
              THEN /\ books' = Append(books, book)
                   /\ calls' = [calls EXCEPT ![k] =
                           Finished([@ EXCEPT !.book = id, !.result = <<Populate(book)>>],
                                    Len(authors), Len(books) + 1)]
              ELSE /\ books' = books
                   /\ calls' = [calls EXCEPT ![k] =
                           Finished([@ EXCEPT !.error = "ValidationError"],
                                    Len(authors), Len(books))]
    /\ resp' = NoResp
    /\ UNCHANGED <<users, authors, edit>>

\* const book = new Book({ ...args, author: author._id }); await book.save()
\* Whether the store accepts the document is decided by the Book schema,
\* which is not part of src/: both outcomes are possible.
AddBookSaveBook(k, accepted) ==
    /\ k \in DOMAIN calls
    /\ calls[k].pc = "saveBook"
    /\ LET c == calls[k]
           id == Len(books) + 1
       IN  IF accepted
           THEN /\ books' = Append(books,
                        [id |-> id, title |-> c.args.title, published |-> c.args.published,
                         author |-> c.author, genres |-> c.args.genres])
                /\ calls' = [calls EXCEPT ![k] = [@ EXCEPT !.pc = "populate", !.book = id]]
           ELSE /\ books' = books
                /\ calls' = [calls EXCEPT ![k] =
                        Finished([@ EXCEPT !.error = "ValidationError"],
                                 Len(authors), Len(books))]
    /\ resp' = NoResp
    /\ UNCHANGED <<users, authors, edit, subs, published>>

\* AddBookPublish without the publish: the Book is returned and no event is sent.
AddBookPublish_Silent(k) ==
    /\ k \in DOMAIN calls
    /\ calls[k].pc = "populate"
    /\ LET populatedBook == Populate(books[calls[k].book])
       IN  calls' = [calls EXCEPT ![k] = Finished([@ EXCEPT !.result = <<populatedBook>>],
                                                  Len(authors), Len(books))]
    /\ resp' = NoResp
    /\ UNCHANGED <<users, authors, books, edit, subs, published>>

\* const populatedBook = await book.populate('author');
\* pubsub.publish('BOOK_ADDED', { bookAdded: populatedBook }); return populatedBook
AddBookPublish(k) ==
    /\ k \in DOMAIN calls
    /\ calls[k].pc = "populate"
    /\ LET populatedBook == Populate(books[calls[k].book])
       IN  /\ published' = Append(published, populatedBook)
           /\ subs' = PublishTo(subs, populatedBook)
           /\ calls' = [calls EXCEPT ![k] = Finished([@ EXCEPT !.result = <<populatedBook>>],
                                                       Len(authors), Len(books))]
    /\ resp' = NoResp
    /\ UNCHANGED <<users, authors, books, edit>>

\* ------------------------------------------------------------------ bookAdded
\* subscribe: () => pubsub.asyncIterator('BOOK_ADDED'): a new iterator with
\* an empty queue, registered from now on.  An iterator record: its state,
\* the payloads queued and those already sent to the client, how many
\* payloads had been published when it was opened (since) and cancelled
\* (until), and how many addBook requests had been made when it was opened.
Subscribe ==
    /\ Len(subs) < MaxSubs
    /\ subs' = Append(subs, [state |-> "active", queue |-> <<>>, received |-> <<>>,
                             since |-> Len(published), until |-> 0,
                             calls0 |-> Len(calls)])
    /\ resp' = NoResp
    /\ UNCHANGED <<users, authors, books, calls, edit, published>>

\* The transport takes the next payload of an iterator and sends it to the client.
Deliver(s) ==
    /\ s \in DOMAIN subs
    /\ subs[s].state = "active"
    /\ subs[s].queue # <<>>
    /\ subs' = [subs EXCEPT ![s] = [@ EXCEPT !.received = Append(@, subs[s].queue[1]),
                                             !.queue = Tail(@)]]
    /\ resp' = NoResp
    /\ UNCHANGED <<users, authors, books, calls, edit, published>>

\* The client completes the subscription or its connection closes: the
\* transport calls the iterator's return(), which unregisters it and drops
\* what it had queued.
Unsubscribe(s) ==
    /\ s \in DOMAIN subs
    /\ subs[s].state = "active"
    /\ subs' = [subs EXCEPT ![s] = [@ EXCEPT !.state = "cancelled", !.queue = <<>>,
                                             !.until = Len(published)]]
    /\ resp' = NoResp
    /\ UNCHANGED <<users, authors, books, calls, edit, published>>

Registered == { s \in DOMAIN subs : subs[s].state = "active" }

\* ------------------------------------------------------------------ editAuthor
NoEdit ==
    [pc |-> "idle", name |-> "", setBornTo |-> 0, currentUser |-> <<>>,
     doc |-> <<>>, ret |-> <<>>, error |-> ""]

\* EditAuthorFind without the currentUser check.
EditAuthorFind_NoCheck(cred, name, setBornTo) ==
    /\ edit.pc # "save"
    /\ LET cu == Context(cred)
           e == [NoEdit EXCEPT !.name = name, !.setBornTo = setBornTo, !.currentUser = cu]
           a == FindOneAuthorByName(name)
       IN  edit' = IF a = <<>> THEN [e EXCEPT !.pc = "done"]
                   ELSE [e EXCEPT !.pc = "save", !.doc = a]
    /\ resp' = NoResp
    /\ UNCHANGED <<users, authors, books, calls, subs, published>>

\* The request arrives: the context is built, the resolver throws without a
\* current user, and otherwise runs `await Author.findOne({ name: args.name })`
\* and returns null when there is no such Author.
EditAuthorFind(cred, name, setBornTo) ==
    /\ edit.pc # "save"
    /\ LET cu == Context(cred)
           e == [NoEdit EXCEPT !.name = name, !.setBornTo = setBornTo, !.currentUser = cu]
           a == FindOneAuthorByName(name)
       IN  edit' = IF cu = <<>> THEN [e EXCEPT !.pc = "done", !.error = "UNAUTHENTICATED"]
                   ELSE IF a = <<>> THEN [e EXCEPT !.pc = "done"]
                   ELSE [e EXCEPT !.pc = "save", !.doc = a]
    /\ resp' = NoResp
    /\ UNCHANGED <<users, authors, books, calls, subs, published>>

\* author.born = args.setBornTo; return author.save(): the one modified path
\* of the document found is written to the document of that _id.
EditAuthorSave ==
    /\ edit.pc = "save"
    /\ LET doc == [edit.doc[1] EXCEPT !.born = <<edit.setBornTo>>]
       IN  /\ authors' = [authors EXCEPT ![doc.id] = [@ EXCEPT !.born = doc.born]]
           /\ edit' = [edit EXCEPT !.pc = "done", !.ret = <<doc>>]
    /\ resp' = NoResp
    /\ UNCHANGED <<users, books, calls, subs, published>>

\* ------------------------------------------------------------------ createUser, login
Response(op, args, value) == [NoResp EXCEPT !.op = op, !.args = args, !.value = value]

Failure(op, args, code, message) ==
    [NoResp EXCEPT !.op = op, !.args = args, !.error = code, !.message = message]

\* createUser: new User({ ...args }).save()
CreateUser(username, favoriteGenre) ==
    /\ IF UserSchemaAccepts(username)
       THEN LET u == [id |-> Len(users) + 1, username |-> username,
                      favoriteGenre |-> favoriteGenre]
            IN  /\ users' = Append(users, u)
       ELSE /\ users' = users
    /\ resp' = NoResp
    /\ UNCHANGED <<authors, books, calls, edit, subs, published>>

\* jwt.sign(userForToken, JWT_SECRET): the token carries the payload it signs.
Sign(payload) == [payload |-> payload, secret |-> "JWT_SECRET"]

\* LoginResult with the password compared without regard to case.
LoginResult_AnyCase(username, password) ==
    LET user == FindOneUserByName(username)
        passwordCorrect == password \in {"secret", "Secret"}
    IN  IF user = <<>> \/ ~passwordCorrect
        THEN Failure("login", <<username, password>>, "BAD_USER_INPUT", "wrong credentials")
        ELSE Response("login", <<username, password>>,
                      <<Sign([username |-> user[1].username, id |-> user[1].id])>>)

\* The login resolver, as a function of its arguments and the users collection.
LoginResult(username, password) ==
    LET user == FindOneUserByName(username)
        passwordCorrect == password = "secret"
    IN  IF user = <<>> \/ ~passwordCorrect
        THEN Failure("login", <<username, password>>, "BAD_USER_INPUT", "wrong credentials")
        ELSE Response("login", <<username, password>>,
                      <<Sign([username |-> user[1].username, id |-> user[1].id])>>)

Login(username, password) ==
    /\ resp' = LoginResult(username, password)
    /\ UNCHANGED <<users, authors, books, calls, edit, subs, published>>

\* ------------------------------------------------------------------ queries
\* if (args.author), if (args.genre): JavaScript truthiness of an optional string.
Truthy(opt) == opt # <<>> /\ opt[1] # ""

Contains(seq, x) == \E i \in DOMAIN seq : seq[i] = x

PopulateAll(bs) == [ i \in DOMAIN bs |-> Populate(bs[i]) ]

\* The allBooks resolver: the filter object it builds, then
\* Book.find(filter).populate('author').
AllBooksResult(author, genre) ==
    LET byAuthor == Truthy(author)
        found == IF byAuthor THEN FindOneAuthorByName(author[1]) ELSE <<>>
        Matches(b) ==
            /\ byAuthor => b.author = found[1].id
            /\ Truthy(genre) => Contains(b.genres, genre[1])
    IN  IF byAuthor /\ found = <<>> THEN <<>>
        ELSE PopulateAll(SelectSeq(books, Matches))

AllBooks(author, genre) ==
    /\ resp' = Response("allBooks", <<author, genre>>, AllBooksResult(author, genre))
    /\ UNCHANGED <<users, authors, books, calls, edit, subs, published>>

\* Lookup joined on the Book's own _id instead of its author reference.
Lookup_OnBookId(a) ==
    LET Joins(b) == b.id = a.id
    IN  [id |-> a.id, name |-> a.name, born |-> a.born, books |-> SelectSeq(books, Joins)]

\* $lookup { from: 'books', localField: '_id', foreignField: 'author', as: 'books' }
Lookup(a) ==
    LET Joins(b) == b.author = a.id
    IN  [id |-> a.id, name |-> a.name, born |-> a.born, books |-> SelectSeq(books, Joins)]

\* $addFields { bookCount: { $size: '$books' } }, then $project { books: 0 }
AddFieldsProject(d) ==
    [id |-> d.id, name |-> d.name, born |-> d.born, bookCount |-> Len(d.books)]

\* The allAuthors resolver: the aggregation pipeline over the authors collection.
AllAuthorsResult == [ i \in DOMAIN authors |-> AddFieldsProject(Lookup(authors[i])) ]

AllAuthors ==
    /\ resp' = Response("allAuthors", <<>>, AllAuthorsResult)
    /\ UNCHANGED <<users, authors, books, calls, edit, subs, published>>

\* ------------------------------------------------------------------ system
OptionalAuthors == {<<>>} \cup { <<n>> : n \in AuthorNames }
OptionalGenres == {<<>>} \cup { <<g>> : g \in GenreNames }
LoginNames == Usernames \cup {"u2"}

Init ==
    /\ users = <<>>
    /\ authors = <<>>
    /\ books = <<>>
    /\ calls = <<>>
    /\ edit = NoEdit
    /\ subs = <<>>
    /\ published = <<>>
    /\ resp = NoResp

AddBookStep ==
    \/ \E cred \in Credentials, args \in BookInputs : AddBookStart(cred, args)
    \/ \E k \in 1..MaxCalls : AddBookFind(k)
    \/ \E k \in 1..MaxCalls : AddBookSaveAuthor(k)
    \/ \E k \in 1..MaxCalls, accepted \in BOOLEAN : AddBookSaveBook(k, accepted)
    \/ \E k \in 1..MaxCalls : AddBookPublish(k)

EditAuthorStep ==
    \/ \E cred \in Credentials, name \in EditNames, b \in BornYears :
            EditAuthorFind(cred, name, b)
    \/ EditAuthorSave

CreateUserStep == \E u \in Usernames, g \in FavoriteGenres : CreateUser(u, g)

BusStep ==
    \/ Subscribe
    \/ \E s \in 1..MaxSubs : Deliver(s)
    \/ \E s \in 1..MaxSubs : Unsubscribe(s)

\* createUser for any of the names login is tried with.
RegisterStep == \E u \in LoginNames, g \in FavoriteGenres : CreateUser(u, g)

LoginStep == \E u \in LoginNames, p \in Passwords : Login(u, p)

AllBooksStep == \E a \in OptionalAuthors, g \in OptionalGenres : AllBooks(a, g)

Next ==
    \/ AddBookStep
    \/ EditAuthorStep
    \/ CreateUserStep
    \/ BusStep
    \/ LoginStep
    \/ AllBooksStep
    \/ AllAuthors

Spec == Init /\ [][Next]_vars

\* The specifications the properties are checked under.  Each takes the
\* resolvers that write what its properties read, and leaves out steps that
\* cannot change it: a query or a login writes only resp; the steps of the
\* iterators write only subs; editAuthor writes only edit and the born of one
\* Author, which no addBook step reads except to copy it into the populated
\* Book it returns.
NextAddBook == CreateUserStep \/ AddBookStep
SpecAddBook == Init /\ [][NextAddBook]_vars

NextWrite == CreateUserStep \/ AddBookStep \/ EditAuthorStep
SpecWrite == Init /\ [][NextWrite]_vars

NextBus == CreateUserStep \/ AddBookStep \/ BusStep
SpecBus == Init /\ [][NextBus]_vars

NextRead == RegisterStep \/ AddBookStep \/ LoginStep \/ AllBooksStep
SpecRead == Init /\ [][NextRead]_vars

NextAuthors == CreateUserStep \/ AddBookStep \/ EditAuthorStep \/ AllAuthors
SpecAuthors == Init /\ [][NextAuthors]_vars

\* ------------------------------------------------------------------ claims
Done(c) == c.pc = "done"

StoreUnchanged == UNCHANGED <<users, authors, books, published, subs>>

\* The step is the arrival of an addBook request whose context holds no current user.
ArrivesWithoutUser ==
    /\ Len(calls') = Len(calls) + 1
    /\ Context(calls'[Len(calls')].cred) = <<>>

C2_DeniedAtOnce ==
    ArrivesWithoutUser =>
        /\ calls'[Len(calls')].pc = "done"
        /\ calls'[Len(calls')].error = "UNAUTHENTICATED"
        /\ StoreUnchanged

C2_DeniedForGood ==
    \A k \in DOMAIN calls :
        calls[k].error = "UNAUTHENTICATED" =>
            /\ Done(calls[k])
            /\ calls[k].result = <<>>
            /\ calls[k].looked = "" /\ calls[k].author = 0 /\ calls[k].book = 0
            /\ calls[k].dAuthors = 0 /\ calls[k].dBooks = 0
            /\ \A i \in DOMAIN published : published[i] \notin Range(calls[k].result)

\* C2: an addBook request made with no current user in its context (no
\* credential, or a token whose user id the store does not hold) fails with
\* UNAUTHENTICATED in the step it arrives, and that step changes no
\* collection and publishes nothing; the request never inserts a Book or an
\* Author afterwards.
C2_UnauthenticatedAddBook == [][C2_DeniedAtOnce]_vars /\ []C2_DeniedForGood

\* A request was refused for a token that names no stored user, while the
\* store already held a Book.
C2_Witness ==
    \E k \in DOMAIN calls :
        /\ calls[k].cred # <<>>
        /\ calls[k].error = "UNAUTHENTICATED"
        /\ calls[k].books0 = 0 /\ Len(books) > 0
        /\ k > 1

\* What C3 says of one finished request c.
FindOrCreateDone(c) ==
    /\ c.dBooks = 1
    /\ c.dAuthors = (IF c.named0 = 0 THEN 1 ELSE 0)
    /\ Cardinality(Named(c.args.author)) = (IF c.named0 = 0 THEN 1 ELSE c.named0)
    /\ c.book \in DOMAIN books
    /\ books[c.book].author = c.author
    /\ Cardinality({ i \in DOMAIN authors : authors[i].id = c.author }) = 1
    /\ c.result # <<>>
    /\ c.result[1].id = c.book
    /\ c.result[1].author # <<>>
    /\ c.result[1].author[1].id = c.author
    /\ c.result[1].author[1].name = c.args.author

RanAlone(c) == Done(c) /\ c.currentUser # <<>> /\ c.alone

BothMissed(c1, c2) ==
    /\ c1.args.author = c2.args.author
    /\ AuthorSchemaAccepts(c1.args.author)
    /\ c1.looked = "miss" /\ c1.pc # "saveAuthor"
    /\ c2.looked = "miss" /\ c2.pc # "saveAuthor"

\* C9: when two authenticated addBook requests with the same author name
\* have both looked the name up before either inserted (both lookups found
\* nothing), each inserts an Author of its own: the store holds two Authors
\* of that name, and the Book of each request references the Author that
\* request inserted.
C9_DuplicateAuthors ==
    \A k1, k2 \in DOMAIN calls :
        (k1 # k2 /\ BothMissed(calls[k1], calls[k2])) =>
            /\ calls[k1].author # calls[k2].author
            /\ \A k \in {k1, k2} :
                /\ calls[k].author \in DOMAIN authors
                /\ authors[calls[k].author].name = calls[k].args.author
                /\ calls[k].book # 0 => books[calls[k].book].author = calls[k].author
            /\ Cardinality(Named(calls[k1].args.author)) >= 2

\* The race has run to its end: two Authors of one name, a Book on each.
C9_Witness ==
    \E k1, k2 \in DOMAIN calls :
        /\ k1 # k2 /\ BothMissed(calls[k1], calls[k2])
        /\ calls[k1].result # <<>> /\ calls[k2].result # <<>>
        /\ books[calls[k1].book].author # books[calls[k2].book].author
        /\ Cardinality(Named(calls[k1].args.author)) = 2

\* The request's Book insert was refused.
BookRefused(c) == Done(c) /\ c.author # 0 /\ c.book = 0

\* C10: every published event's Book is in the books collection, a Book is
\* stored and an event published only by a request whose Book insert was
\* accepted (one Book per accepted insert, one event per returned Book), and
\* a request whose Book insert was refused fails with no Book and no event
\* while the Author it resolved, also the one it inserted itself, stays in
\* the store.
C10_PublishAfterInsert ==
    /\ \A i \in DOMAIN published :
        /\ published[i].id \in DOMAIN books
        /\ published[i].title = books[published[i].id].title
        /\ \E k \in DOMAIN calls : calls[k].book = published[i].id /\ calls[k].pc = "done"
    /\ Len(books) = Cardinality({ k \in DOMAIN calls : calls[k].book # 0 })
    /\ Len(published) = Cardinality({ k \in DOMAIN calls : calls[k].result # <<>> })
    /\ \A k \in DOMAIN calls :
        /\ calls[k].result # <<>> => calls[k].book \in DOMAIN books
        /\ BookRefused(calls[k]) =>
            /\ calls[k].error # "" /\ calls[k].result = <<>>
            /\ calls[k].author \in DOMAIN authors
            /\ authors[calls[k].author].name = calls[k].args.author
            /\ calls[k].looked = "miss" => calls[k].dAuthors >= 1

\* A request inserted its Author, had its Book refused, and the Author is
\* still stored with no Book; another request published its Book.
C10_Witness ==
    \E k \in DOMAIN calls :
        /\ BookRefused(calls[k]) /\ calls[k].looked = "miss"
        /\ \A j \in DOMAIN books : books[j].author # calls[k].author
        /\ published # <<>>

\* The step answers an editAuthor request at once: it arrives and is refused,
\* or arrives and finds no Author.
EditAnswersAtOnce == edit.pc # "save" /\ edit'.pc = "done" /\ edit' # edit

\* The step is the arrival of an editAuthor request that found an Author.
EditFinds == edit.pc # "save" /\ edit'.pc = "save"

\* The step is the save of the Author an editAuthor request found.
EditSaves == edit.pc = "save" /\ edit'.pc = "done"

C7_Arrival ==
    (EditAnswersAtOnce \/ EditFinds) =>
        /\ StoreUnchanged
        /\ edit'.ret = <<>>
        /\ edit'.currentUser = <<>> =>
            /\ edit'.pc = "done"
            /\ edit'.error = "UNAUTHENTICATED"
        /\ edit'.currentUser # <<>> =>
            /\ edit'.error = ""
            /\ (edit'.pc = "done") = (Named(edit'.name) = {})
            /\ edit'.pc = "save" =>
                /\ edit'.doc # <<>>
                /\ edit'.doc[1].name = edit'.name
                /\ edit'.doc[1].id \in Named(edit'.name)

C7_Save ==
    EditSaves =>
        LET id == edit.doc[1].id IN
        /\ UNCHANGED <<users, books, published, subs>>
        /\ DOMAIN authors' = DOMAIN authors
        /\ \A i \in DOMAIN authors : i # id => authors'[i] = authors[i]
        /\ authors'[id] = [authors[id] EXCEPT !.born = <<edit.setBornTo>>]
        /\ authors[id].name = edit.name
        /\ edit'.ret = <<authors'[id]>>
        /\ edit'.error = ""

\* C7: an editAuthor request without a current user fails with
\* UNAUTHENTICATED and changes nothing; with a current user and no Author of
\* that name it returns null and changes nothing; with a current user and an
\* Author of that name it sets the born of that one Author to setBornTo and
\* returns the updated Author.  No step of the request changes a Book, a
\* User or another Author, or publishes an event.
C7_EditAuthor == [][C7_Arrival /\ C7_Save]_vars

\* An edit overwrote a born year that was already set, and was answered with
\* the updated Author, while another Author and a Book are stored.
C7_Witness ==
    /\ edit.pc = "done" /\ edit.ret # <<>>
    /\ edit.ret[1].born = <<1950>>
    /\ \E i \in DOMAIN authors : authors[i].born = <<1900>>
    /\ books # <<>>

\* What an iterator has been handed so far, oldest first.
Inbox(s) == subs[s].received \o subs[s].queue

\* The payloads published since iterator s was opened, in publish order.
Feed(s) == SubSeq(published, subs[s].since + 1, Len(published))

IsPrefix(a, b) == Len(a) <= Len(b) /\ a = SubSeq(b, 1, Len(a))

\* Every returned Book was published once, and nothing else was published.
OneEventPerBook ==
    /\ \A k \in DOMAIN calls :
        calls[k].result # <<>> =>
            Cardinality({ i \in DOMAIN published : published[i] = calls[k].result[1] }) = 1
    /\ \A i \in DOMAIN published :
        \E k \in DOMAIN calls : calls[k].result = <<published[i]>>

\* A cancelled iterator holds nothing queued, and was sent only what was
\* published while it was registered.
CancelledGetNoMore ==
    \A s \in DOMAIN subs :
        subs[s].state = "cancelled" =>
            /\ subs[s].queue = <<>>
            /\ IsPrefix(subs[s].received,
                        SubSeq(published, subs[s].since + 1, subs[s].until))

\* C1 as amended: an iterator registered on BOOK_ADDED when an addBook request
\* publishes, and not cancelled since, is handed exactly one notification for
\* that request, the populated Book the mutation returned; the notifications
\* reach each iterator in the order in which the requests published; an
\* iterator opened after a request has published is handed nothing for it.
C1_Delivery ==
    /\ OneEventPerBook
    /\ CancelledGetNoMore
    /\ \A s \in DOMAIN subs : subs[s].state = "active" => Inbox(s) = Feed(s)

\* The request that returned Book p.
CallOf(p) == CHOOSE k \in DOMAIN calls : calls[k].result = <<p>>

\* The Books returned by the requests made after iterator s was opened, in
\* the order the requests were made.
CallOrderFeed(s) ==
    LET Counts(k) == k > subs[s].calls0 /\ calls[k].result # <<>>
        ks == SelectSeq([ k \in DOMAIN calls |-> k ], Counts)
    IN  [ j \in DOMAIN ks |-> calls[ks[j]].result[1] ]

\* What iterator s was handed for the requests made after it was opened.
HandedForLaterCalls(s) ==
    LET Later(p) == CallOf(p) > subs[s].calls0
    IN  SelectSeq(Inbox(s), Later)

\* C1 as claimed: an iterator registered before addBook requests were made is
\* handed one notification for each that succeeded, in the order the
\* requests were made.
C1_AsClaimed ==
    /\ OneEventPerBook
    /\ CancelledGetNoMore
    /\ \A s \in DOMAIN subs :
        subs[s].state = "active" => HandedForLaterCalls(s) = CallOrderFeed(s)

\* Two requests have published; the iterator opened before both was sent
\* both events in publish order, the one opened between them only the second.
C1_Witness ==
    \E s1, s2 \in DOMAIN subs :
        /\ Len(published) = 2
        /\ subs[s1].since = 0 /\ subs[s1].received = published
        /\ subs[s2].since = 1 /\ subs[s2].received = <<published[2]>>

\* The step cancels iterator s.
Cancels(s) == subs[s].state = "active" /\ subs'[s].state = "cancelled"

\* The step publishes an event.
Publishes == Len(published') = Len(published) + 1

C4_Step ==
    /\ \A s \in DOMAIN subs :
        Cancels(s) =>
            /\ Registered' = Registered \ {s}
            /\ Cardinality(Registered') = Cardinality(Registered) - 1
            /\ \A r \in Registered' : subs'[r] = subs[r]
    /\ \A s \in DOMAIN subs :
        subs[s].state = "cancelled" => subs'[s] = subs[s]
    /\ Publishes =>
        /\ \A r \in Registered :
            /\ r \in Registered'
            /\ subs'[r].queue = Append(subs[r].queue, published'[Len(published')])
        /\ \E k \in DOMAIN calls :
            /\ calls[k].pc = "populate" /\ calls'[k].pc = "done"
            /\ calls'[k].error = ""
            /\ calls'[k].result = <<published'[Len(published')]>>

\* C4: cancelling an iterator of BOOK_ADDED takes exactly that one iterator
\* out of the registered set and leaves the others as they were; a cancelled
\* iterator is never touched again (no later publish queues anything on it);
\* every later publish returns its Book without error and queues the event
\* on every iterator still registered.
C4_Cancellation == [][C4_Step]_vars

\* One iterator was cancelled, and a request published afterwards: the other
\* iterator, registered before the cancellation, was sent that event.
C4_Witness ==
    \E s, r \in DOMAIN subs :
        /\ subs[s].state = "cancelled" /\ subs[s].until < Len(published)
        /\ subs[r].state = "active" /\ subs[r].since <= subs[s].until
        /\ subs[r].received = Feed(r)
        /\ calls[Len(calls)].result = <<published[Len(published)]>>

\* What C5 says of the response of a login.
C5_Answer ==
    resp.op = "login" =>
        LET username == resp.args[1]
            password == resp.args[2]
            known == \E i \in DOMAIN users : users[i].username = username
        IN  /\ (resp.value # <<>>) = (known /\ password = "secret")
            /\ resp.value # <<>> =>
                /\ resp.error = ""
                /\ resp.value[1].payload.username = username
                /\ \E i \in DOMAIN users :
                    /\ users[i].username = username
                    /\ users[i].id = resp.value[1].payload.id
            /\ resp.value = <<>> =>
                /\ resp.error = "BAD_USER_INPUT"
                /\ resp.message = "wrong credentials"

\* A login step changes no collection and publishes nothing.
C5_Frame == resp'.op = "login" => StoreUnchanged /\ UNCHANGED <<calls, edit>>

\* C5: login returns a token exactly when a User of that username is stored
\* and the password is "secret"; the token then embeds that username and the
\* _id of that User; otherwise it fails with no token and with one and the
\* same error (BAD_USER_INPUT, "wrong credentials") whether the username is
\* unknown or the password wrong.
\* It changes no collection.
C5_Login == []C5_Answer /\ [][C5_Frame]_vars

\* A login was answered with a token for the second of two stored users,
\* while the store holds a Book.
C5_Witness ==
    /\ resp.op = "login"
    /\ resp.value # <<>>
    /\ Len(users) = 2
    /\ resp.value[1].payload.id = users[2].id
    /\ books # <<>>

\* The stored Author of Book b.
AuthorOf(b) == authors[CHOOSE i \in DOMAIN authors : authors[i].id = b.author]

\* The stored Books that satisfy every filter that is given (not null).
Satisfying(author, genre) ==
    { b \in Range(books) :
        /\ genre # <<>> => Contains(b.genres, genre[1])
        /\ author # <<>> => AuthorOf(b).name = author[1] }

\* C6 as claimed: allBooks(author, genre) returns exactly the stored Books,
\* populated, that satisfy all the filters given, and the empty list when
\* author is given and names no Author.
C6_AllBooks ==
    resp.op = "allBooks" =>
        LET author == resp.args[1]
            genre == resp.args[2]
        IN  /\ Range(resp.value) = { Populate(b) : b \in Satisfying(author, genre) }
            /\ (author # <<>> /\ Named(author[1]) = {}) => resp.value = <<>>

\* C8: allAuthors returns every stored Author exactly once, each with a
\* bookCount that is the number of stored Books whose author reference is
\* that Author's _id: a number, 0 for an Author no Book references.
C8_AllAuthors ==
    resp.op = "allAuthors" =>
        /\ Len(resp.value) = Len(authors)
        /\ \A i \in DOMAIN authors :
            Cardinality({ j \in DOMAIN resp.value : resp.value[j].id = authors[i].id }) = 1
        /\ \A j \in DOMAIN resp.value :
            /\ resp.value[j].bookCount \in Nat
            /\ resp.value[j].bookCount =
                 Cardinality({ b \in DOMAIN books : books[b].author = resp.value[j].id })
            /\ \E i \in DOMAIN authors :
                /\ authors[i].id = resp.value[j].id
                /\ authors[i].name = resp.value[j].name
                /\ authors[i].born = resp.value[j].born

\* allAuthors answered with an Author of one Book whose born was edited and
\* an Author of no Book.
C8_Witness ==
    /\ resp.op = "allAuthors"
    /\ \E i, j \in DOMAIN resp.value :
        /\ resp.value[i].bookCount = 0
        /\ resp.value[j].bookCount = 1
        /\ resp.value[j].born # <<>>
====
